---- MODULE Spec2Model ----
(***************************************************************************)
(* Model of Render::ShipRenderContext (src/Game/ShipRenderContext.cpp):    *)
(* the per-ship rendering context of Floating Sandbox.                     *)
(*                                                                         *)
(* The state is the context's members, the part of the OpenGL / shader     *)
(* manager state that the context writes, and the shared statistics sink.  *)
(* Element streams are kept by their size(): the code never looks at the   *)
(* elements themselves, only at how many there are.                        *)
(***************************************************************************)
EXTENDS Integers, Sequences, FiniteSets, TLC

\* ------------------------------------------------------------------ bounds

\* Largest mPointCount a context is constructed with.
MaxPointCount == 2
\* Largest number of elements appended to one element stream.
MaxElements == 1
\* Largest number of quads appended to one generic-texture component.
MaxQuads == 2
\* Largest maxMaxPlaneId handed to UploadPointPlaneIds.
MaxPlaneId == 2
\* Number of component slots RenderStart adds on top of mMaxMaxPlaneId
\* (the source resizes to mMaxMaxPlaneId + 1000; the model keeps the shape
\* of the list and scales the slack down).
ComponentSlack == 2
\* Largest number of samples of a vector field.
MaxVectors == 1
\* Largest number of ships in the scene.
MaxShipCount == 2

\* ------------------------------------------------------- program constants

\* Vertices per generic-texture quad (two triangles).
VerticesPerQuad == 6
\* Number of depth layers per plane.
NLayers == 6
\* The depth range shared by all ships: where it starts and how far it
\* extends, along the Z axis.
ShipRegionZStart == 1
ShipRegionZWidth == -2

\* ------------------------------------------------------------------ domains

ShipRenderModes == {"Structure", "Texture"}
DebugShipRenderModes == {"None", "Wireframe", "Points", "Springs", "EdgeSprings"}
VectorFieldRenderModes == {"None", "PointVelocity"}

Programs ==
    {"ShipRopes", "ShipTrianglesColor", "ShipTrianglesTexture",
     "ShipStressedSprings", "ShipPointsColor", "ShipGenericTextures",
     "ShipVectors"}

\* Values a point colour can take, and the value the other point attributes
\* are uploaded with (their content is never read, only replaced).
Colors == {"red", "green"}
AttrValues == {"a"}
\* Content of GPU storage that was allocated (glBufferData with a null
\* pointer) and never written.
Indeterminate == "indeterminate"

VARIABLES
    \* parameters
    mShipId, mShipCount,
    mShipRenderMode, mDebugShipRenderMode, mVectorFieldRenderMode,
    mShowStressedSprings,
    \* points
    mPointCount, mMaxMaxPlaneId,
    mPointPositionVBO, mPointLightVBO, mPointWaterVBO, mPointColorVBO,
    mPointPlaneIdVBO, mPointElementTextureCoordinatesVBO,
    \* element streams: size() of each CPU-side buffer
    mPointElementBuffer, mSpringElementBuffer, mRopeElementBuffer,
    mTriangleElementBuffer, mStressedSpringElementBuffer, mEphemeralPoints,
    \* element VBOs: number of elements last transferred to the GPU
    mPointElementVBO, mSpringElementVBO, mRopeElementVBO, mTriangleElementVBO,
    mStressedSpringElementVBO, mEphemeralPointVBO,
    \* generic textures: the vertex count of each connected component
    mGenericTextureConnectedComponents,
    mGenericTextureMaxVertexBufferSize,
    mGenericTextureAllocatedVertexBufferSize,
    \* vectors: the points of the arrow buffer
    mVectorArrowPointPositionBuffer, mVectorArrowColor,
    \* shader manager: active program, OrthoMatrix parameter of each program
    activeProgram, orthoMatrix,
    \* OpenGL: TRUE while generic vertex attribute array 0 is enabled
    vertexAttribArray0Enabled,
    \* shared statistics sink
    mRenderStatistics,
    \* build flavour: TRUE when assert() is compiled in
    assertsEnabled,
    \* TRUE once an assertion has aborted the process
    aborted,
    \* observation of the last operation: its name and arguments, the draws
    \* it issued (in order) and the number of UpdateOrthoMatrices runs it made
    lastOp, draws, orthoUpdates

modeVars == <<mShipId, mShipCount, mShipRenderMode, mDebugShipRenderMode,
              mVectorFieldRenderMode, mShowStressedSprings>>
pointVars == <<mPointPositionVBO, mPointLightVBO, mPointWaterVBO,
               mPointColorVBO, mPointPlaneIdVBO,
               mPointElementTextureCoordinatesVBO>>
streamVars == <<mPointElementBuffer, mSpringElementBuffer, mRopeElementBuffer,
                mTriangleElementBuffer, mStressedSpringElementBuffer,
                mEphemeralPoints>>
vboVars == <<mPointElementVBO, mSpringElementVBO, mRopeElementVBO,
             mTriangleElementVBO, mStressedSpringElementVBO,
             mEphemeralPointVBO>>
gtVars == <<mGenericTextureConnectedComponents,
            mGenericTextureMaxVertexBufferSize,
            mGenericTextureAllocatedVertexBufferSize>>
buildVars == <<mPointCount, assertsEnabled, aborted>>
bindingVars == <<activeProgram, orthoMatrix, vertexAttribArray0Enabled>>
vectorVars == <<mVectorArrowPointPositionBuffer, mVectorArrowColor>>

vars == <<modeVars, pointVars, streamVars, vboVars, gtVars, buildVars,
          mMaxMaxPlaneId, vectorVars, bindingVars,
          mRenderStatistics, lastOp, draws, orthoUpdates>>

\* ----------------------------------------------------------------- helpers

Max(a, b) == IF a >= b THEN a ELSE b

RECURSIVE SumElements(_, _)
\* Sum of the elements field of the draws of one kind.
SumElements(ds, kind) ==
    IF ds = <<>> THEN 0
    ELSE (IF Head(ds).kind = kind THEN Head(ds).elements ELSE 0)
         + SumElements(Tail(ds), kind)

ZeroStatistics ==
    [LastRenderedShipSprings |-> 0, LastRenderedShipRopes |-> 0,
     LastRenderedShipTriangles |-> 0, LastRenderedShipGenericTextures |-> 0,
     LastRenderedShipEphemeralPoints |-> 0, LastRenderedShipPlanes |-> 0]


\* ------------------------------------------------- depth-layer projection

\* Mutant: the textured triangles program receives the matrix of layer 2.
Mutant_LayerOfProgram(p) ==
    CASE p = "ShipRopes" -> 0
      [] p = "ShipTrianglesColor" -> 1
      [] p = "ShipTrianglesTexture" -> 2
      [] p = "ShipStressedSprings" -> 2
      [] p = "ShipPointsColor" -> 3
      [] p = "ShipGenericTextures" -> 4
      [] p = "ShipVectors" -> 5

\* Mutant: the vectors program is left out of the layer shift by one.
Mutant_LayerOfProgramShifted(p) ==
    CASE p = "ShipRopes" -> 1
      [] p = "ShipTrianglesColor" -> 2
      [] p = "ShipTrianglesTexture" -> 2
      [] p = "ShipStressedSprings" -> 3
      [] p = "ShipPointsColor" -> 4
      [] p = "ShipGenericTextures" -> 5
      [] p = "ShipVectors" -> 5

\* The layer whose matrix UpdateOrthoMatrices pushes to each program.
LayerOfProgram(p) ==
    CASE p = "ShipRopes" -> 0
      [] p = "ShipTrianglesColor" -> 1
      [] p = "ShipTrianglesTexture" -> 1
      [] p = "ShipStressedSprings" -> 2
      [] p = "ShipPointsColor" -> 3
      [] p = "ShipGenericTextures" -> 4
      [] p = "ShipVectors" -> 5

\* ViewModel::CalculateShipOrthoMatrix is kept symbolic: the matrix is the
\* tuple of the arguments it was computed from.
CalculateShipOrthoMatrix(shipRegionZStart, shipRegionZWidth, iShip, nShips, maxMaxPlaneId, iLayer, nLayers) ==
    [zStart |-> shipRegionZStart, zWidth |-> shipRegionZWidth,
     iShip |-> iShip, nShips |-> nShips,
     maxMaxPlaneId |-> maxMaxPlaneId, layer |-> iLayer, nLayers |-> nLayers]

\* The depth slot a matrix sends the points of one plane to: the shared
\* range is cut into nShips * (maxMaxPlaneId + 1) * nLayers equal slots,
\* ship by ship, plane by plane, layer by layer; the slot is the interval
\* [lo / n, hi / n) of the way from zStart to zStart + zWidth.
DepthSlot(matrix, plane) ==
    LET index == (matrix.iShip * (matrix.maxMaxPlaneId + 1) + plane)
                    * matrix.nLayers + matrix.layer
    IN  [lo |-> index, hi |-> index + 1,
         n |-> matrix.nShips * (matrix.maxMaxPlaneId + 1) * matrix.nLayers]

\* Mutant: the matrices are computed before the new maxMaxPlaneId is stored.
Mutant_UpdateOrthoMatrices(maxMaxPlaneId) ==
    [p \in Programs |->
        CalculateShipOrthoMatrix(ShipRegionZStart, ShipRegionZWidth,
                                 mShipId, mShipCount, mMaxMaxPlaneId,
                                 LayerOfProgram(p), NLayers)]

\* The OrthoMatrix parameter of every program after UpdateOrthoMatrices ran
\* with the given mMaxMaxPlaneId.
UpdateOrthoMatrices(maxMaxPlaneId) ==
    [p \in Programs |->
        CalculateShipOrthoMatrix(ShipRegionZStart, ShipRegionZWidth,
                                 mShipId, mShipCount, maxMaxPlaneId,
                                 LayerOfProgram(p), NLayers)]

\* The program left active by UpdateOrthoMatrices (its last ActivateProgram).
UpdateOrthoMatricesLastProgram == "ShipVectors"

\* OnViewModelUpdated recomputes the depth-layer matrices: the number of
\* UpdateOrthoMatrices runs one call makes.
OnViewModelUpdated == 1

\* ------------------------------------------------------------ construction

\* The state the constructor leaves behind.
ConstructedShip(shipId, shipCount, shipRenderMode, debugShipRenderMode, vectorFieldRenderMode, showStressedSprings, pointCount, asserts) ==
    /\ mShipId = shipId
    /\ mShipCount = shipCount
    /\ mShipRenderMode = shipRenderMode
    /\ mDebugShipRenderMode = debugShipRenderMode
    /\ mVectorFieldRenderMode = vectorFieldRenderMode
    /\ mShowStressedSprings = showStressedSprings
    /\ mPointCount = pointCount
    /\ mMaxMaxPlaneId = 0
    /\ mPointPositionVBO = [i \in 1..pointCount |-> Indeterminate]
    /\ mPointLightVBO = [i \in 1..pointCount |-> Indeterminate]
    /\ mPointWaterVBO = [i \in 1..pointCount |-> Indeterminate]
    /\ mPointColorVBO = [i \in 1..pointCount |-> Indeterminate]
    /\ mPointPlaneIdVBO = [i \in 1..pointCount |-> Indeterminate]
    /\ mPointElementTextureCoordinatesVBO = [i \in 1..pointCount |-> Indeterminate]
    /\ mPointElementBuffer = 0
    /\ mSpringElementBuffer = 0
    /\ mRopeElementBuffer = 0
    /\ mTriangleElementBuffer = 0
    /\ mStressedSpringElementBuffer = 0
    /\ mEphemeralPoints = 0
    /\ mPointElementVBO = 0
    /\ mSpringElementVBO = 0
    /\ mRopeElementVBO = 0
    /\ mTriangleElementVBO = 0
    /\ mStressedSpringElementVBO = 0
    /\ mEphemeralPointVBO = 0
    /\ mGenericTextureConnectedComponents = <<>>
    /\ mGenericTextureMaxVertexBufferSize = 0
    /\ mGenericTextureAllocatedVertexBufferSize = 0
    /\ mVectorArrowPointPositionBuffer = <<>>
    /\ mVectorArrowColor = "vec4f()"
    /\ activeProgram = "ShipPointsColor"
    /\ orthoMatrix = UpdateOrthoMatrices(0)
    /\ vertexAttribArray0Enabled = FALSE
    /\ mRenderStatistics = ZeroStatistics
    /\ assertsEnabled = asserts
    /\ aborted = FALSE
    /\ lastOp = [op |-> "ShipRenderContext"]
    /\ draws = <<>>
    /\ orthoUpdates = OnViewModelUpdated

\* The only ship of a scene.
Constructed(shipRenderMode, debugShipRenderMode, vectorFieldRenderMode, showStressedSprings, pointCount, asserts) ==
    ConstructedShip(0, 1, shipRenderMode, debugShipRenderMode,
                    vectorFieldRenderMode, showStressedSprings, pointCount,
                    asserts)

\* ------------------------------------------------------------- draw calls

\* The arguments of the glLineWidth calls, and the mark of a render function
\* that draws without calling glLineWidth.
WireframeLineWidth == "0.1f"
ElementLineWidth == "0.1f * 2.0f * CanvasToVisibleWorldHeightRatio"
VectorLineWidth == "0.5f"
LineWidthNotSet == "not set"

\* The mark of a render function that draws without activating a program.
NoProgramActivated == "none activated"

\* One glDrawElements / glDrawArrays call as its render function prepares
\* it: what is drawn, the program the function activated, the count handed
\* to OpenGL, the number of elements the statement after the draw adds to
\* the statistics, the line width the function set before drawing, and
\* whether it enabled vertex attribute array 0 before drawing.
Draw(kind, program, count, elements, lineWidth) ==
    [kind |-> kind, program |-> program, count |-> count,
     elements |-> elements, lineWidth |-> lineWidth,
     enablesVertexAttribArray0 |-> FALSE]

RenderPointElements ==
    <<Draw("Points", "ShipPointsColor", 1 * mPointElementBuffer, 0,
           LineWidthNotSet)>>

RenderSpringElements(withTexture) ==
    <<Draw("Springs",
           IF withTexture THEN "ShipTrianglesTexture" ELSE "ShipTrianglesColor",
           2 * mSpringElementBuffer, mSpringElementBuffer, ElementLineWidth)>>

\* Mutant: the rope draw runs with whatever program is active.
Mutant_RenderRopeElements ==
    <<Draw("Ropes", NoProgramActivated, 2 * mRopeElementBuffer,
           mRopeElementBuffer, ElementLineWidth)>>

RenderRopeElements ==
    <<Draw("Ropes", "ShipRopes", 2 * mRopeElementBuffer, mRopeElementBuffer,
           ElementLineWidth)>>

\* Mutant: the wireframe line width is set on the colour path only.
Mutant_RenderTriangleElements(withTexture) ==
    <<Draw("Triangles",
           IF withTexture THEN "ShipTrianglesTexture" ELSE "ShipTrianglesColor",
           3 * mTriangleElementBuffer, mTriangleElementBuffer,
           IF mDebugShipRenderMode = "Wireframe" /\ ~withTexture
           THEN WireframeLineWidth ELSE LineWidthNotSet)>>

RenderTriangleElements(withTexture) ==
    <<Draw("Triangles",
           IF withTexture THEN "ShipTrianglesTexture" ELSE "ShipTrianglesColor",
           3 * mTriangleElementBuffer, mTriangleElementBuffer,
           IF mDebugShipRenderMode = "Wireframe"
           THEN WireframeLineWidth ELSE LineWidthNotSet)>>

\* Mutant: the stressed springs draw is issued for an empty stream too.
Mutant_RenderStressedSpringElements ==
    <<Draw("StressedSprings", "ShipStressedSprings",
           2 * mStressedSpringElementBuffer, 0, ElementLineWidth)>>

RenderStressedSpringElements ==
    IF mStressedSpringElementBuffer # 0
    THEN <<Draw("StressedSprings", "ShipStressedSprings",
                2 * mStressedSpringElementBuffer, 0, ElementLineWidth)>>
    ELSE <<>>

\* connectedComponent is the size() of the component's VertexBuffer.
RenderGenericTextures(connectedComponent) ==
    IF connectedComponent # 0
    THEN <<Draw("GenericTextures", "ShipGenericTextures", connectedComponent,
                connectedComponent \div VerticesPerQuad,
                IF mDebugShipRenderMode = "Wireframe"
                THEN WireframeLineWidth ELSE LineWidthNotSet)>>
    ELSE <<>>

\* Mutant: the ephemeral points are drawn only when no debug mode is on.
Mutant_RenderEphemeralPoints ==
    IF mEphemeralPoints # 0 /\ mDebugShipRenderMode = "None"
    THEN <<Draw("EphemeralPoints", "ShipPointsColor", mEphemeralPoints,
                mEphemeralPoints, LineWidthNotSet)>>
    ELSE <<>>

RenderEphemeralPoints ==
    IF mEphemeralPoints # 0
    THEN <<Draw("EphemeralPoints", "ShipPointsColor", mEphemeralPoints,
                mEphemeralPoints, LineWidthNotSet)>>
    ELSE <<>>

RenderVectors ==
    <<[Draw("Vectors", "ShipVectors", Len(mVectorArrowPointPositionBuffer), 0,
            VectorLineWidth) EXCEPT !.enablesVertexAttribArray0 = TRUE]>>

\* The conditions of RenderEnd, one per if statement.
\* Mutant: the points draw also depends on the vector-field mode.
Mutant_DrawPointsCondition ==
    mDebugShipRenderMode = "Points" /\ mVectorFieldRenderMode = "None"

DrawPointsCondition ==
    mDebugShipRenderMode = "Points"

DrawTrianglesCondition ==
    \/ mDebugShipRenderMode = "Wireframe"
    \/ /\ mDebugShipRenderMode = "None"
       /\ (mShipRenderMode = "Structure" \/ mShipRenderMode = "Texture")

\* Mutant: the texture choice of the springs draw copied to the triangles.
Mutant_TrianglesWithTexture ==
    mDebugShipRenderMode = "None" /\ mShipRenderMode = "Texture"

TrianglesWithTexture ==
    mShipRenderMode = "Texture"

\* Mutant: the first ropes draw is issued unconditionally.
Mutant_DrawRopesFirstCondition ==
    TRUE

DrawRopesFirstCondition ==
    \/ mDebugShipRenderMode # "None"
    \/ mShipRenderMode # "Structure"

DrawSpringsCondition ==
    \/ mDebugShipRenderMode = "Springs"
    \/ mDebugShipRenderMode = "EdgeSprings"
    \/ /\ mDebugShipRenderMode = "None"
       /\ (mShipRenderMode = "Structure" \/ mShipRenderMode = "Texture")

\* Mutant: the texture choice of the springs draw ignores the debug mode.
Mutant_SpringsWithTexture ==
    mShipRenderMode = "Texture"

\* Mutant: the second rope draw ignores the ship render mode.
Mutant_DrawRopesSecondCondition ==
    mDebugShipRenderMode = "None"

SpringsWithTexture ==
    mDebugShipRenderMode = "None" /\ mShipRenderMode = "Texture"

DrawRopesSecondCondition ==
    mDebugShipRenderMode = "None" /\ mShipRenderMode = "Structure"

\* Mutant: the stressed springs draw ignores the toggle.
Mutant_DrawStressedSpringsCondition ==
    mDebugShipRenderMode = "None"

DrawStressedSpringsCondition ==
    mDebugShipRenderMode = "None" /\ mShowStressedSprings

\* Mutant: the vector overlay is drawn only when no debug mode is on.
Mutant_DrawVectorsCondition ==
    mVectorFieldRenderMode # "None" /\ mDebugShipRenderMode = "None"

DrawVectorsCondition ==
    mVectorFieldRenderMode # "None"

RECURSIVE Mutant_RenderAllGenericTextures(_)
\* Mutant: the loop walks the component list from its end.
Mutant_RenderAllGenericTextures(components) ==
    IF components = <<>> THEN <<>>
    ELSE Mutant_RenderAllGenericTextures(Tail(components))
         \o RenderGenericTextures(Head(components))

RECURSIVE RenderAllGenericTextures(_)
\* The loop of RenderEnd over mGenericTextureConnectedComponents.
RenderAllGenericTextures(components) ==
    IF components = <<>> THEN <<>>
    ELSE RenderGenericTextures(Head(components))
         \o RenderAllGenericTextures(Tail(components))

\* Mutant: springs are drawn before triangles.
Mutant_RenderEndDraws ==
    (IF DrawPointsCondition THEN RenderPointElements ELSE <<>>)
    \o (IF DrawSpringsCondition
        THEN RenderSpringElements(SpringsWithTexture) ELSE <<>>)
    \o (IF DrawRopesFirstCondition THEN RenderRopeElements ELSE <<>>)
    \o (IF DrawTrianglesCondition
        THEN RenderTriangleElements(TrianglesWithTexture) ELSE <<>>)
    \o (IF DrawRopesSecondCondition THEN RenderRopeElements ELSE <<>>)
    \o (IF DrawStressedSpringsCondition
        THEN RenderStressedSpringElements ELSE <<>>)
    \o RenderEphemeralPoints
    \o RenderAllGenericTextures(mGenericTextureConnectedComponents)
    \o (IF DrawVectorsCondition THEN RenderVectors ELSE <<>>)

\* The draws of one RenderEnd, in the order the code issues them.
RenderEndDraws ==
    (IF DrawPointsCondition THEN RenderPointElements ELSE <<>>)
    \o (IF DrawTrianglesCondition
        THEN RenderTriangleElements(TrianglesWithTexture) ELSE <<>>)
    \o (IF DrawRopesFirstCondition THEN RenderRopeElements ELSE <<>>)
    \o (IF DrawSpringsCondition
        THEN RenderSpringElements(SpringsWithTexture) ELSE <<>>)
    \o (IF DrawRopesSecondCondition THEN RenderRopeElements ELSE <<>>)
    \o (IF DrawStressedSpringsCondition
        THEN RenderStressedSpringElements ELSE <<>>)
    \o RenderEphemeralPoints
    \o RenderAllGenericTextures(mGenericTextureConnectedComponents)
    \o (IF DrawVectorsCondition THEN RenderVectors ELSE <<>>)

\* "Allocate vertex buffer, if needed": the allocated size after the first
\* non-empty component has been rendered.
AllocateGenericTextureVertexBuffer(allocated, maxSize) ==
    IF allocated # maxSize THEN maxSize ELSE allocated

\* Mutant: the planes update adds mMaxMaxPlaneId, without the + 1.
Mutant_UpdateStatistics(stats, ds) ==
    [LastRenderedShipSprings |->
        stats.LastRenderedShipSprings + SumElements(ds, "Springs"),
     LastRenderedShipRopes |->
        stats.LastRenderedShipRopes + SumElements(ds, "Ropes"),
     LastRenderedShipTriangles |->
        stats.LastRenderedShipTriangles + SumElements(ds, "Triangles"),
     LastRenderedShipGenericTextures |->
        stats.LastRenderedShipGenericTextures + SumElements(ds, "GenericTextures"),
     LastRenderedShipEphemeralPoints |->
        stats.LastRenderedShipEphemeralPoints + SumElements(ds, "EphemeralPoints"),
     LastRenderedShipPlanes |->
        stats.LastRenderedShipPlanes + mMaxMaxPlaneId]

\* Mutant: the springs counter is assigned instead of added to.
Mutant_UpdateStatisticsAssign(stats, ds) ==
    [LastRenderedShipSprings |->
        SumElements(ds, "Springs"),
     LastRenderedShipRopes |->
        stats.LastRenderedShipRopes + SumElements(ds, "Ropes"),
     LastRenderedShipTriangles |->
        stats.LastRenderedShipTriangles + SumElements(ds, "Triangles"),
     LastRenderedShipGenericTextures |->
        stats.LastRenderedShipGenericTextures + SumElements(ds, "GenericTextures"),
     LastRenderedShipEphemeralPoints |->
        stats.LastRenderedShipEphemeralPoints + SumElements(ds, "EphemeralPoints"),
     LastRenderedShipPlanes |->
        stats.LastRenderedShipPlanes + mMaxMaxPlaneId + 1]

\* The planes update is the last statement of RenderEnd: the number of draws
\* of ds already issued when it runs.
PlanesUpdatePosition(ds) ==
    Len(ds)

\* The statistics sink after the draws ds and the closing planes update.
UpdateStatistics(stats, ds) ==
    [LastRenderedShipSprings |->
        stats.LastRenderedShipSprings + SumElements(ds, "Springs"),
     LastRenderedShipRopes |->
        stats.LastRenderedShipRopes + SumElements(ds, "Ropes"),
     LastRenderedShipTriangles |->
        stats.LastRenderedShipTriangles + SumElements(ds, "Triangles"),
     LastRenderedShipGenericTextures |->
        stats.LastRenderedShipGenericTextures + SumElements(ds, "GenericTextures"),
     LastRenderedShipEphemeralPoints |->
        stats.LastRenderedShipEphemeralPoints + SumElements(ds, "EphemeralPoints"),
     LastRenderedShipPlanes |->
        stats.LastRenderedShipPlanes + mMaxMaxPlaneId + 1]

\* Mutant: RenderEnd starts without disabling vertex attribute array 0.
Mutant_DisableVertexAttribArray0 ==
    vertexAttribArray0Enabled

\* glDisableVertexAttribArray(0), the first statement of RenderEnd: whether
\* the array is enabled afterwards.
DisableVertexAttribArray0 ==
    FALSE

RECURSIVE IssueDraws(_, _, _)
\* The draws ds as OpenGL executes them, starting with the given program
\* active and the given state of vertex attribute array 0: each draw runs
\* with the program its render function activated, or else the one that was
\* active before, and with the array enabled if its render function enabled
\* it or it was enabled before.
IssueDraws(ds, program, attribute0) ==
    IF ds = <<>> THEN <<>>
    ELSE LET d == Head(ds)
             active == IF d.program = NoProgramActivated
                       THEN program ELSE d.program
             enabled == d.enablesVertexAttribArray0 \/ attribute0
         IN  <<[kind |-> d.kind, program |-> d.program, count |-> d.count,
                elements |-> d.elements, lineWidth |-> d.lineWidth,
                activeProgram |-> active, vertexAttribArray0 |-> enabled]>>
             \o IssueDraws(Tail(ds), active, enabled)

\* Mutant: RenderEnd consumes the ephemeral points it has drawn.
Mutant_RenderEnd ==
    /\ ~aborted
    /\ draws' = IssueDraws(RenderEndDraws, activeProgram,
                           DisableVertexAttribArray0)
    /\ activeProgram' =
          IF draws' = <<>> THEN activeProgram
          ELSE draws'[Len(draws')].activeProgram
    /\ vertexAttribArray0Enabled' =
          IF draws' = <<>> THEN DisableVertexAttribArray0
          ELSE draws'[Len(draws')].vertexAttribArray0
    /\ mGenericTextureAllocatedVertexBufferSize' =
          IF \E c \in 1..Len(mGenericTextureConnectedComponents) :
                mGenericTextureConnectedComponents[c] # 0
          THEN AllocateGenericTextureVertexBuffer(
                  mGenericTextureAllocatedVertexBufferSize,
                  mGenericTextureMaxVertexBufferSize)
          ELSE mGenericTextureAllocatedVertexBufferSize
    /\ mRenderStatistics' = UpdateStatistics(mRenderStatistics, RenderEndDraws)
    /\ lastOp' = [op |-> "RenderEnd",
                  planesUpdatedAfter |-> PlanesUpdatePosition(RenderEndDraws)]
    /\ orthoUpdates' = 0
    /\ mEphemeralPoints' = 0
    /\ UNCHANGED <<modeVars, pointVars, mPointElementBuffer,
                   mSpringElementBuffer, mRopeElementBuffer,
                   mTriangleElementBuffer, mStressedSpringElementBuffer,
                   vboVars, buildVars,
                   mGenericTextureConnectedComponents,
                   mGenericTextureMaxVertexBufferSize,
                   mMaxMaxPlaneId, vectorVars, orthoMatrix>>

\* RenderEnd: disables vertex attribute array 0, issues the draws of the
\* frame in order and counts them in the statistics.
RenderEnd ==
    /\ ~aborted
    /\ draws' = IssueDraws(RenderEndDraws, activeProgram,
                           DisableVertexAttribArray0)
    /\ activeProgram' =
          IF draws' = <<>> THEN activeProgram
          ELSE draws'[Len(draws')].activeProgram
    /\ vertexAttribArray0Enabled' =
          IF draws' = <<>> THEN DisableVertexAttribArray0
          ELSE draws'[Len(draws')].vertexAttribArray0
    /\ mGenericTextureAllocatedVertexBufferSize' =
          IF \E c \in 1..Len(mGenericTextureConnectedComponents) :
                mGenericTextureConnectedComponents[c] # 0
          THEN AllocateGenericTextureVertexBuffer(
                  mGenericTextureAllocatedVertexBufferSize,
                  mGenericTextureMaxVertexBufferSize)
          ELSE mGenericTextureAllocatedVertexBufferSize
    /\ mRenderStatistics' = UpdateStatistics(mRenderStatistics, RenderEndDraws)
    /\ lastOp' = [op |-> "RenderEnd",
                  planesUpdatedAfter |-> PlanesUpdatePosition(RenderEndDraws)]
    /\ orthoUpdates' = 0
    /\ UNCHANGED <<modeVars, pointVars, streamVars, vboVars, buildVars,
                   mGenericTextureConnectedComponents,
                   mGenericTextureMaxVertexBufferSize,
                   mMaxMaxPlaneId, vectorVars, orthoMatrix>>


\* ------------------------------------------------------------ frame start

\* Mutant: the component list is resized without being cleared first.
Mutant_ResetGenericTextureConnectedComponents(maxMaxPlaneId) ==
    [c \in 1..(maxMaxPlaneId + ComponentSlack) |->
        IF c <= Len(mGenericTextureConnectedComponents)
        THEN mGenericTextureConnectedComponents[c] ELSE 0]

\* The component list after clear() and resize(mMaxMaxPlaneId + slack):
\* that many components, each with an empty VertexBuffer.
ResetGenericTextureConnectedComponents(maxMaxPlaneId) ==
    [c \in 1..(maxMaxPlaneId + ComponentSlack) |-> 0]

RenderStart ==
    /\ ~aborted
    /\ mGenericTextureConnectedComponents' =
          ResetGenericTextureConnectedComponents(mMaxMaxPlaneId)
    /\ mGenericTextureMaxVertexBufferSize' = 0
    /\ lastOp' = [op |-> "RenderStart"]
    /\ draws' = <<>>
    /\ orthoUpdates' = 0
    /\ UNCHANGED <<modeVars, pointVars, streamVars, vboVars, buildVars,
                   mGenericTextureAllocatedVertexBufferSize, mMaxMaxPlaneId,
                   vectorVars, bindingVars,
                   mRenderStatistics>>

\* The peak tracker after a component's VertexBuffer reached vertexCount.
UpdateGenericTextureMaxVertexBufferSize(maxSize, vertexCount) ==
    Max(maxSize, vertexCount)

\* Appends one quad to the component with the given index.
UploadGenericTextureRenderSpecification(connectedComponentIndex) ==
    /\ ~aborted
    /\ connectedComponentIndex \in 1..Len(mGenericTextureConnectedComponents)
    /\ mGenericTextureConnectedComponents[connectedComponentIndex]
          < MaxQuads * VerticesPerQuad
    /\ mGenericTextureConnectedComponents' =
          [mGenericTextureConnectedComponents EXCEPT
             ![connectedComponentIndex] = @ + VerticesPerQuad]
    /\ mGenericTextureMaxVertexBufferSize' =
          UpdateGenericTextureMaxVertexBufferSize(
             mGenericTextureMaxVertexBufferSize,
             mGenericTextureConnectedComponents[connectedComponentIndex]
                + VerticesPerQuad)
    /\ lastOp' = [op |-> "UploadGenericTextureRenderSpecification"]
    /\ draws' = <<>>
    /\ orthoUpdates' = 0
    /\ UNCHANGED <<modeVars, pointVars, streamVars, vboVars, buildVars,
                   mGenericTextureAllocatedVertexBufferSize, mMaxMaxPlaneId,
                   vectorVars, bindingVars,
                   mRenderStatistics>>

\* ---------------------------------------------------------- point uploads

\* glBufferSubData on a buffer of Len(buffer) elements: an out-of-range
\* request raises GL_INVALID_VALUE and writes nothing.
BufferSubDataInvalid(buffer, offset, data) ==
    offset + Len(data) > Len(buffer)

BufferSubData(buffer, offset, data) ==
    IF BufferSubDataInvalid(buffer, offset, data)
    THEN buffer
    ELSE [i \in 1..Len(buffer) |->
            IF offset < i /\ i <= offset + Len(data)
            THEN data[i - offset] ELSE buffer[i]]

\* CheckOpenGLError after a GL call: throws when the call raised an error.
CheckOpenGLError(invalid) ==
    IF invalid THEN "OpenGLError" ELSE "Ok"

\* Mutant: the range upload forgets the start offset.
Mutant_ColorRangeSubDataAtZero(buffer, color, startIndex, count) ==
    BufferSubData(buffer, 0, SubSeq(color, 1, count))

\* Mutant: the range upload clamps an overlong range to the buffer's end.
Mutant_ColorRangeSubDataClamped(buffer, color, startIndex, count) ==
    IF startIndex > Len(buffer) THEN buffer
    ELSE BufferSubData(buffer, startIndex,
            SubSeq(color, 1, IF startIndex + count > Len(buffer)
                             THEN Len(buffer) - startIndex ELSE count))

\* glBufferSubData(GL_ARRAY_BUFFER, startIndex * sizeof(vec4f),
\*                 count * sizeof(vec4f), color), in units of one vec4f.
ColorRangeSubData(buffer, color, startIndex, count) ==
    BufferSubData(buffer, startIndex, SubSeq(color, 1, count))

\* assert(startIndex + count <= mPointCount)
ColorRangeAssertion(startIndex, count) ==
    startIndex + count <= mPointCount

\* Inputs of the full uploads: arrays of mPointCount values.
ColorArrays == [1..mPointCount -> Colors]
AttrArrays == {[i \in 1..mPointCount |-> v] : v \in AttrValues}

UploadPointImmutableGraphicalAttributes(color, textureCoordinates) ==
    /\ ~aborted
    /\ mPointColorVBO' = BufferSubData(mPointColorVBO, 0, color)
    /\ mPointElementTextureCoordinatesVBO' =
          BufferSubData(mPointElementTextureCoordinatesVBO, 0, textureCoordinates)
    /\ lastOp' = [op |-> "UploadPointImmutableGraphicalAttributes"]
    /\ draws' = <<>>
    /\ orthoUpdates' = 0
    /\ UNCHANGED <<modeVars, mPointPositionVBO, mPointLightVBO, mPointWaterVBO,
                   mPointPlaneIdVBO, streamVars, vboVars, gtVars, buildVars,
                   mMaxMaxPlaneId, vectorVars,
                   bindingVars, mRenderStatistics>>

UploadShipPointColorRange(color, startIndex, count) ==
    /\ ~aborted
    /\ Len(color) >= count
    /\ IF assertsEnabled /\ ~ColorRangeAssertion(startIndex, count)
       THEN /\ aborted' = TRUE
            /\ lastOp' = [op |-> "UploadShipPointColorRange",
                          color |-> SubSeq(color, 1, count),
                          startIndex |-> startIndex, count |-> count,
                          outcome |-> "AssertionFailed"]
            /\ UNCHANGED mPointColorVBO
       ELSE /\ aborted' = FALSE
            /\ mPointColorVBO' =
                  ColorRangeSubData(mPointColorVBO, color, startIndex, count)
            /\ lastOp' = [op |-> "UploadShipPointColorRange",
                          color |-> SubSeq(color, 1, count),
                          startIndex |-> startIndex, count |-> count,
                          outcome |->
                             CheckOpenGLError(
                                BufferSubDataInvalid(mPointColorVBO, startIndex,
                                                     SubSeq(color, 1, count)))]
    /\ draws' = <<>>
    /\ orthoUpdates' = 0
    /\ UNCHANGED <<modeVars, mPointPositionVBO, mPointLightVBO, mPointWaterVBO,
                   mPointPlaneIdVBO, mPointElementTextureCoordinatesVBO,
                   streamVars, vboVars, gtVars, mPointCount, assertsEnabled,
                   mMaxMaxPlaneId, vectorVars,
                   bindingVars, mRenderStatistics>>

UploadPoints(position, light, water) ==
    /\ ~aborted
    /\ mPointPositionVBO' = BufferSubData(mPointPositionVBO, 0, position)
    /\ mPointLightVBO' = BufferSubData(mPointLightVBO, 0, light)
    /\ mPointWaterVBO' = BufferSubData(mPointWaterVBO, 0, water)
    /\ lastOp' = [op |-> "UploadPoints"]
    /\ draws' = <<>>
    /\ orthoUpdates' = 0
    /\ UNCHANGED <<modeVars, mPointColorVBO, mPointPlaneIdVBO,
                   mPointElementTextureCoordinatesVBO, streamVars, vboVars,
                   gtVars, buildVars, mMaxMaxPlaneId,
                   vectorVars, bindingVars,
                   mRenderStatistics>>

\* if (maxMaxPlaneId != mMaxMaxPlaneId)
MaxMaxPlaneIdChanged(maxMaxPlaneId, stored) ==
    maxMaxPlaneId # stored

UploadPointPlaneIds(planeId, maxMaxPlaneId) ==
    /\ ~aborted
    /\ mPointPlaneIdVBO' = BufferSubData(mPointPlaneIdVBO, 0, planeId)
    /\ IF MaxMaxPlaneIdChanged(maxMaxPlaneId, mMaxMaxPlaneId)
       THEN /\ mMaxMaxPlaneId' = maxMaxPlaneId
            /\ orthoMatrix' = UpdateOrthoMatrices(maxMaxPlaneId)
            /\ activeProgram' = UpdateOrthoMatricesLastProgram
            /\ orthoUpdates' = OnViewModelUpdated
       ELSE /\ orthoUpdates' = 0
            /\ UNCHANGED <<mMaxMaxPlaneId, orthoMatrix, activeProgram>>
    /\ lastOp' = [op |-> "UploadPointPlaneIds", maxMaxPlaneId |-> maxMaxPlaneId]
    /\ draws' = <<>>
    /\ UNCHANGED vertexAttribArray0Enabled
    /\ UNCHANGED <<modeVars, mPointPositionVBO, mPointLightVBO, mPointWaterVBO,
                   mPointColorVBO, mPointElementTextureCoordinatesVBO,
                   streamVars, vboVars, gtVars, buildVars,
                   vectorVars, mRenderStatistics>>


\* --------------------------------------------------------- element uploads

\* Mutant: the ephemeral points are emptied along with the five streams.
Mutant_UploadElementsStart ==
    /\ ~aborted
    /\ mPointElementBuffer' = 0
    /\ mSpringElementBuffer' = 0
    /\ mRopeElementBuffer' = 0
    /\ mTriangleElementBuffer' = 0
    /\ mStressedSpringElementBuffer' = 0
    /\ mEphemeralPoints' = 0
    /\ lastOp' = [op |-> "UploadElementsStart"]
    /\ draws' = <<>>
    /\ orthoUpdates' = 0
    /\ UNCHANGED <<modeVars, pointVars, vboVars, gtVars,
                   buildVars, mMaxMaxPlaneId, vectorVars,
                   bindingVars, mRenderStatistics>>

UploadElementsStart ==
    /\ ~aborted
    /\ mPointElementBuffer' = 0
    /\ mSpringElementBuffer' = 0
    /\ mRopeElementBuffer' = 0
    /\ mTriangleElementBuffer' = 0
    /\ mStressedSpringElementBuffer' = 0
    /\ lastOp' = [op |-> "UploadElementsStart"]
    /\ draws' = <<>>
    /\ orthoUpdates' = 0
    /\ UNCHANGED <<modeVars, pointVars, mEphemeralPoints, vboVars, gtVars,
                   buildVars, mMaxMaxPlaneId, vectorVars,
                   bindingVars, mRenderStatistics>>

\* The per-element uploads append one element to their stream.
UploadElementPoint ==
    /\ ~aborted
    /\ mPointElementBuffer < MaxElements
    /\ mPointElementBuffer' = mPointElementBuffer + 1
    /\ lastOp' = [op |-> "UploadElementPoint"]
    /\ draws' = <<>>
    /\ orthoUpdates' = 0
    /\ UNCHANGED <<modeVars, pointVars, mSpringElementBuffer,
                   mRopeElementBuffer, mTriangleElementBuffer,
                   mStressedSpringElementBuffer, mEphemeralPoints, vboVars,
                   gtVars, buildVars, mMaxMaxPlaneId,
                   vectorVars, bindingVars,
                   mRenderStatistics>>

UploadElementSpring ==
    /\ ~aborted
    /\ mSpringElementBuffer < MaxElements
    /\ mSpringElementBuffer' = mSpringElementBuffer + 1
    /\ lastOp' = [op |-> "UploadElementSpring"]
    /\ draws' = <<>>
    /\ orthoUpdates' = 0
    /\ UNCHANGED <<modeVars, pointVars, mPointElementBuffer,
                   mRopeElementBuffer, mTriangleElementBuffer,
                   mStressedSpringElementBuffer, mEphemeralPoints, vboVars,
                   gtVars, buildVars, mMaxMaxPlaneId,
                   vectorVars, bindingVars,
                   mRenderStatistics>>

UploadElementRope ==
    /\ ~aborted
    /\ mRopeElementBuffer < MaxElements
    /\ mRopeElementBuffer' = mRopeElementBuffer + 1
    /\ lastOp' = [op |-> "UploadElementRope"]
    /\ draws' = <<>>
    /\ orthoUpdates' = 0
    /\ UNCHANGED <<modeVars, pointVars, mPointElementBuffer,
                   mSpringElementBuffer, mTriangleElementBuffer,
                   mStressedSpringElementBuffer, mEphemeralPoints, vboVars,
                   gtVars, buildVars, mMaxMaxPlaneId,
                   vectorVars, bindingVars,
                   mRenderStatistics>>

UploadElementTriangle ==
    /\ ~aborted
    /\ mTriangleElementBuffer < MaxElements
    /\ mTriangleElementBuffer' = mTriangleElementBuffer + 1
    /\ lastOp' = [op |-> "UploadElementTriangle"]
    /\ draws' = <<>>
    /\ orthoUpdates' = 0
    /\ UNCHANGED <<modeVars, pointVars, mPointElementBuffer,
                   mSpringElementBuffer, mRopeElementBuffer,
                   mStressedSpringElementBuffer, mEphemeralPoints, vboVars,
                   gtVars, buildVars, mMaxMaxPlaneId,
                   vectorVars, bindingVars,
                   mRenderStatistics>>

\* Mutant: UploadElementsEnd does not transfer the ropes.
Mutant_UploadElementsEnd ==
    /\ ~aborted
    /\ mPointElementVBO' = mPointElementBuffer
    /\ mSpringElementVBO' = mSpringElementBuffer
    /\ mTriangleElementVBO' = mTriangleElementBuffer
    /\ lastOp' = [op |-> "UploadElementsEnd"]
    /\ draws' = <<>>
    /\ orthoUpdates' = 0
    /\ UNCHANGED <<modeVars, pointVars, streamVars, mStressedSpringElementVBO,
                   mRopeElementVBO,
                   mEphemeralPointVBO, gtVars, buildVars, mMaxMaxPlaneId,
                   vectorVars, bindingVars,
                   mRenderStatistics>>


UploadElementsEnd ==
    /\ ~aborted
    /\ mPointElementVBO' = mPointElementBuffer
    /\ mSpringElementVBO' = mSpringElementBuffer
    /\ mRopeElementVBO' = mRopeElementBuffer
    /\ mTriangleElementVBO' = mTriangleElementBuffer
    /\ lastOp' = [op |-> "UploadElementsEnd"]
    /\ draws' = <<>>
    /\ orthoUpdates' = 0
    /\ UNCHANGED <<modeVars, pointVars, streamVars, mStressedSpringElementVBO,
                   mEphemeralPointVBO, gtVars, buildVars, mMaxMaxPlaneId,
                   vectorVars, bindingVars,
                   mRenderStatistics>>

UploadElementStressedSpringsStart ==
    /\ ~aborted
    /\ mStressedSpringElementBuffer' = 0
    /\ lastOp' = [op |-> "UploadElementStressedSpringsStart"]
    /\ draws' = <<>>
    /\ orthoUpdates' = 0
    /\ UNCHANGED <<modeVars, pointVars, mPointElementBuffer,
                   mSpringElementBuffer, mRopeElementBuffer,
                   mTriangleElementBuffer, mEphemeralPoints, vboVars, gtVars,
                   buildVars, mMaxMaxPlaneId, vectorVars,
                   bindingVars, mRenderStatistics>>

UploadElementStressedSpring ==
    /\ ~aborted
    /\ mStressedSpringElementBuffer < MaxElements
    /\ mStressedSpringElementBuffer' = mStressedSpringElementBuffer + 1
    /\ lastOp' = [op |-> "UploadElementStressedSpring"]
    /\ draws' = <<>>
    /\ orthoUpdates' = 0
    /\ UNCHANGED <<modeVars, pointVars, mPointElementBuffer,
                   mSpringElementBuffer, mRopeElementBuffer,
                   mTriangleElementBuffer, mEphemeralPoints, vboVars, gtVars,
                   buildVars, mMaxMaxPlaneId, vectorVars,
                   bindingVars, mRenderStatistics>>

UploadElementStressedSpringsEnd ==
    /\ ~aborted
    /\ mStressedSpringElementVBO' = mStressedSpringElementBuffer
    /\ lastOp' = [op |-> "UploadElementStressedSpringsEnd"]
    /\ draws' = <<>>
    /\ orthoUpdates' = 0
    /\ UNCHANGED <<modeVars, pointVars, streamVars, mPointElementVBO,
                   mSpringElementVBO, mRopeElementVBO, mTriangleElementVBO,
                   mEphemeralPointVBO, gtVars, buildVars, mMaxMaxPlaneId,
                   vectorVars, bindingVars,
                   mRenderStatistics>>

UploadEphemeralPointsStart ==
    /\ ~aborted
    /\ mEphemeralPoints' = 0
    /\ lastOp' = [op |-> "UploadEphemeralPointsStart"]
    /\ draws' = <<>>
    /\ orthoUpdates' = 0
    /\ UNCHANGED <<modeVars, pointVars, mPointElementBuffer,
                   mSpringElementBuffer, mRopeElementBuffer,
                   mTriangleElementBuffer, mStressedSpringElementBuffer,
                   vboVars, gtVars, buildVars, mMaxMaxPlaneId,
                   vectorVars, bindingVars,
                   mRenderStatistics>>

UploadEphemeralPoint ==
    /\ ~aborted
    /\ mEphemeralPoints < MaxElements
    /\ mEphemeralPoints' = mEphemeralPoints + 1
    /\ lastOp' = [op |-> "UploadEphemeralPoint"]
    /\ draws' = <<>>
    /\ orthoUpdates' = 0
    /\ UNCHANGED <<modeVars, pointVars, mPointElementBuffer,
                   mSpringElementBuffer, mRopeElementBuffer,
                   mTriangleElementBuffer, mStressedSpringElementBuffer,
                   vboVars, gtVars, buildVars, mMaxMaxPlaneId,
                   vectorVars, bindingVars,
                   mRenderStatistics>>

UploadEphemeralPointsEnd ==
    /\ ~aborted
    /\ mEphemeralPointVBO' = mEphemeralPoints
    /\ lastOp' = [op |-> "UploadEphemeralPointsEnd"]
    /\ draws' = <<>>
    /\ orthoUpdates' = 0
    /\ UNCHANGED <<modeVars, pointVars, streamVars, mPointElementVBO,
                   mSpringElementVBO, mRopeElementVBO, mTriangleElementVBO,
                   mStressedSpringElementVBO, gtVars, buildVars, mMaxMaxPlaneId,
                   vectorVars, bindingVars,
                   mRenderStatistics>>

\* ------------------------------------------------------------ environment

\* The owner of the statistics sink resets it at the start of each external
\* frame, before any context uploads or renders.
ResetStatistics ==
    /\ ~aborted
    /\ mRenderStatistics' = ZeroStatistics
    /\ lastOp' = [op |-> "ResetStatistics"]
    /\ draws' = <<>>
    /\ orthoUpdates' = 0
    /\ UNCHANGED <<modeVars, pointVars, streamVars, vboVars, gtVars, buildVars,
                   mMaxMaxPlaneId, vectorVars,
                   bindingVars>>

\* The draws of the RenderEnd of another ship's context in modes Structure
\* and None, with n elements in each of its streams and n quads in one
\* generic-texture component.
OtherShipDraws(n) ==
    <<Draw("Triangles", "ShipTrianglesColor", 3 * n, n, LineWidthNotSet),
      Draw("Springs", "ShipTrianglesColor", 2 * n, n, ElementLineWidth),
      Draw("Ropes", "ShipRopes", 2 * n, n, ElementLineWidth),
      Draw("EphemeralPoints", "ShipPointsColor", n, n, LineWidthNotSet),
      Draw("GenericTextures", "ShipGenericTextures", n * VerticesPerQuad, n,
           LineWidthNotSet)>>

\* The RenderEnd of another ship's context, constructed on the same
\* statistics sink and holding as many planes as this one: of its effects
\* only the one on the shared sink reaches this context.
OtherShipRenderEnd(n) ==
    /\ ~aborted
    /\ mRenderStatistics' = UpdateStatistics(mRenderStatistics, OtherShipDraws(n))
    /\ activeProgram' = OtherShipDraws(n)[Len(OtherShipDraws(n))].program
    /\ vertexAttribArray0Enabled' = DisableVertexAttribArray0
    /\ lastOp' = [op |-> "OtherShipRenderEnd"]
    /\ draws' = <<>>
    /\ orthoUpdates' = 0
    /\ UNCHANGED <<modeVars, pointVars, streamVars, vboVars, gtVars, buildVars,
                   mMaxMaxPlaneId, vectorVars, orthoMatrix>>

\* An operation of another ship's context on the shader manager and the
\* OpenGL state it shares with this one: it leaves any program active and
\* vertex attribute array 0 enabled (its RenderEnd drew vectors) or not.
OtherShipOperation(program, attribute0) ==
    /\ ~aborted
    /\ activeProgram' = program
    /\ vertexAttribArray0Enabled' = attribute0
    /\ lastOp' = [op |-> "OtherShipOperation"]
    /\ draws' = <<>>
    /\ orthoUpdates' = 0
    /\ UNCHANGED <<modeVars, pointVars, streamVars, vboVars, gtVars, buildVars,
                   mMaxMaxPlaneId, vectorVars, orthoMatrix, mRenderStatistics>>

\* UpdateOrthoMatrices of another ship's context, which pushes its matrices
\* to the programs of the shared shader manager and leaves the last of them
\* active.
OtherShipUpdateOrthoMatrices(shipId, maxMaxPlaneId) ==
    /\ ~aborted
    /\ orthoMatrix' =
          [p \in Programs |->
              CalculateShipOrthoMatrix(ShipRegionZStart, ShipRegionZWidth,
                                       shipId, mShipCount, maxMaxPlaneId,
                                       LayerOfProgram(p), NLayers)]
    /\ activeProgram' = "ShipVectors"
    /\ lastOp' = [op |-> "OtherShipUpdateOrthoMatrices"]
    /\ draws' = <<>>
    /\ orthoUpdates' = 0
    /\ UNCHANGED <<modeVars, pointVars, streamVars, vboVars, gtVars, buildVars,
                   mMaxMaxPlaneId, vectorVars, vertexAttribArray0Enabled,
                   mRenderStatistics>>

\* Within one external frame a context finishes its uploads before it
\* renders, and renders once.
UploadPhase == lastOp.op # "RenderEnd"


\* ---------------------------------------------------------- specifications

\* SpecRender: one context constructed with any combination of the mode
\* flags, driven through external frames (uploads, then one RenderEnd, then
\* the statistics reset that opens the next frame).  Generic textures go to
\* the first connected component; SpecComponents fills all of them.
InitRender ==
    \E ship \in ShipRenderModes, debug \in DebugShipRenderModes,
       vec \in VectorFieldRenderModes, stressed \in BOOLEAN :
        Constructed(ship, debug, vec, stressed, MaxPointCount, TRUE)

NextRender ==
    \/ lastOp.op = "RenderEnd" /\ ResetStatistics
    \/ UploadPhase /\ RenderStart
    \/ UploadPhase /\ \E c \in {1} :
                         UploadGenericTextureRenderSpecification(c)
    \/ UploadPhase /\ UploadElementsStart
    \/ UploadPhase /\ UploadElementRope
    \/ UploadPhase /\ UploadElementStressedSpring
    \/ UploadPhase /\ UploadEphemeralPoint
    \/ UploadPhase /\ RenderEnd

SpecRender == InitRender /\ [][NextRender]_vars


\* SpecPlane: one context receiving plane ids with any maxMaxPlaneId, in any
\* order, between frame starts.
PlaneIdArrays(maxMaxPlaneId) == [1..mPointCount -> 0..maxMaxPlaneId]

InitPlane ==
    Constructed("Structure", "None", "None", FALSE, MaxPointCount, TRUE)

NextPlane ==
    \/ \E maxMaxPlaneId \in 0..MaxPlaneId :
          \E planeId \in PlaneIdArrays(maxMaxPlaneId) :
             UploadPointPlaneIds(planeId, maxMaxPlaneId)
    \/ RenderStart

SpecPlane == InitPlane /\ [][NextPlane]_vars

\* SpecGenericTextures: one context driven through external frames that
\* populate the generic-texture components.
InitGenericTextures ==
    \E vec \in VectorFieldRenderModes :
        Constructed("Texture", "None", vec, FALSE, MaxPointCount, TRUE)

NextGenericTextures ==
    \/ lastOp.op = "RenderEnd" /\ ResetStatistics
    \/ UploadPhase /\ RenderStart
    \/ UploadPhase /\ \E c \in 1..(MaxPlaneId + ComponentSlack) :
                         UploadGenericTextureRenderSpecification(c)
    \/ UploadPhase /\ UploadEphemeralPointsStart
    \/ UploadPhase /\ UploadEphemeralPoint
    \/ UploadPhase /\ RenderEnd

SpecGenericTextures == InitGenericTextures /\ [][NextGenericTextures]_vars

\* SpecComponents: one context constructed with any combination of the mode
\* flags, driven through external frames that fill any of the connected
\* components with generic textures.
InitComponents ==
    \E ship \in ShipRenderModes, debug \in DebugShipRenderModes,
       vec \in VectorFieldRenderModes, stressed \in BOOLEAN :
        Constructed(ship, debug, vec, stressed, MaxPointCount, TRUE)

NextComponents ==
    \/ lastOp.op = "RenderEnd" /\ ResetStatistics
    \/ UploadPhase /\ RenderStart
    \/ UploadPhase /\ \E c \in 1..(MaxPlaneId + ComponentSlack) :
                         UploadGenericTextureRenderSpecification(c)
    \/ UploadPhase /\ RenderEnd

SpecComponents == InitComponents /\ [][NextComponents]_vars

\* SpecRenderPlanes: one context constructed with any combination of the
\* mode flags, whose ship changes its number of planes between frames.
InitRenderPlanes ==
    \E ship \in ShipRenderModes, debug \in DebugShipRenderModes,
       vec \in VectorFieldRenderModes, stressed \in BOOLEAN :
        Constructed(ship, debug, vec, stressed, MaxPointCount, TRUE)

NextRenderPlanes ==
    \/ lastOp.op = "RenderEnd" /\ ResetStatistics
    \/ UploadPhase /\ \E maxMaxPlaneId \in 0..MaxPlaneId :
                         UploadPointPlaneIds(
                            [i \in 1..mPointCount |-> maxMaxPlaneId],
                            maxMaxPlaneId)
    \/ UploadPhase /\ UploadElementRope
    \/ UploadPhase /\ UploadEphemeralPoint
    \/ UploadPhase /\ RenderEnd

SpecRenderPlanes == InitRenderPlanes /\ [][NextRenderPlanes]_vars

\* SpecStatistics: one context in debug mode None, sharing the statistics
\* sink with another ship's context that renders first in the frame.
InitStatistics ==
    \E ship \in ShipRenderModes :
        Constructed(ship, "None", "None", FALSE, MaxPointCount, TRUE)

NextStatistics ==
    \/ lastOp.op = "RenderEnd" /\ ResetStatistics
    \/ UploadPhase /\ mRenderStatistics = ZeroStatistics
          /\ \E n \in 1..MaxElements : OtherShipRenderEnd(n)
    \/ UploadPhase /\ RenderStart
    \/ UploadPhase /\ \E c \in {1} :
                         UploadGenericTextureRenderSpecification(c)
    \/ UploadPhase /\ UploadElementsStart
    \/ UploadPhase /\ UploadElementSpring
    \/ UploadPhase /\ UploadElementRope
    \/ UploadPhase /\ UploadElementTriangle
    \/ UploadPhase /\ UploadEphemeralPoint
    \/ UploadPhase /\ RenderEnd

SpecStatistics == InitStatistics /\ [][NextStatistics]_vars

\* SpecElements: one context receiving element, ephemeral point and plane id
\* uploads in any order.
InitElements ==
    Constructed("Texture", "Wireframe", "PointVelocity", TRUE, MaxPointCount, TRUE)

NextElements ==
    \/ UploadElementsStart
    \/ UploadElementPoint
    \/ UploadElementSpring
    \/ UploadElementRope
    \/ UploadElementTriangle
    \/ UploadElementStressedSpring
    \/ UploadElementStressedSpringsEnd
    \/ UploadEphemeralPointsStart
    \/ UploadEphemeralPoint
    \/ \E maxMaxPlaneId \in 0..MaxPlaneId :
          UploadPointPlaneIds([i \in 1..mPointCount |-> maxMaxPlaneId],
                              maxMaxPlaneId)

SpecElements == InitElements /\ [][NextElements]_vars

\* ------------------------------------------------------------ UploadVectors

\* A float is modelled exactly as (r + s * sqrt(2)) / 10 with integers r and
\* s, or as NaN.
Float(r, s) == [r |-> r, s |-> s, nan |-> FALSE]
NaN == [r |-> 0, s |-> 0, nan |-> TRUE]
Whole(n) == Float(10 * n, 0)

\* n / 10 for a multiple n of ten; no other n occurs.
ExactTenth(n) == CHOOSE q \in {n \div 10} : 10 * q = n

Add(a, b) == IF a.nan \/ b.nan THEN NaN ELSE Float(a.r + b.r, a.s + b.s)
Negate(a) == IF a.nan THEN NaN ELSE Float(-a.r, -a.s)
Multiply(a, b) ==
    IF a.nan \/ b.nan THEN NaN
    ELSE Float(ExactTenth(a.r * b.r + 2 * a.s * b.s),
               ExactTenth(a.r * b.s + a.s * b.r))

\* r + s * sqrt(2) > 0
Positive(a) ==
    /\ ~a.nan
    /\ \/ a.r >= 0 /\ a.s >= 0 /\ a.r + a.s > 0
       \/ a.r > 0 /\ a.s < 0 /\ a.r * a.r > 2 * a.s * a.s
       \/ a.r < 0 /\ a.s > 0 /\ 2 * a.s * a.s > a.r * a.r

vec2f(x, y) == [x |-> x, y |-> y]
VecAdd(a, b) == vec2f(Add(a.x, b.x), Add(a.y, b.y))
VecScale(a, k) == vec2f(Multiply(a.x, k), Multiply(a.y, k))
Dot(a, b) == Add(Multiply(a.x, b.x), Multiply(a.y, b.y))
Cross(a, b) == Add(Multiply(a.x, b.y), Negate(Multiply(a.y, b.x)))

\* The vectors of length one along the axes and the diagonals.
UnitVectors ==
    LET components == {Whole(0), Whole(1), Whole(-1), Float(0, 5), Float(0, -5)}
    IN  {u \in {vec2f(x, y) : x \in components, y \in components} :
            Dot(u, u) = Whole(1)}

\* vec2f::normalise: the vector of length one with the direction of v; what
\* it returns for the zero vector is the caller's choice ofZero.
normalise(v, ofZero) ==
    IF v.x.nan \/ v.y.nan THEN vec2f(NaN, NaN)
    ELSE IF v = vec2f(Whole(0), Whole(0)) THEN ofZero
    ELSE CHOOSE u \in UnitVectors :
            Cross(u, v) = Whole(0) /\ Positive(Dot(u, v))

\* cos and sin of -2 * Pi / 8
CosAlphaLeftRight == Float(0, 5)
SinAlphaLeft == Float(0, -5)
SinAlphaRight == Negate(SinAlphaLeft)
XMatrixLeft == vec2f(CosAlphaLeftRight, SinAlphaLeft)
YMatrixLeft == vec2f(Negate(SinAlphaLeft), CosAlphaLeftRight)
XMatrixRight == vec2f(CosAlphaLeftRight, SinAlphaRight)
YMatrixRight == vec2f(Negate(SinAlphaRight), CosAlphaLeftRight)

\* 0.2f, the length of an arrowhead stroke
ArrowHeadLength == Float(2, 0)

\* Mutant: the left stroke starts at the position of the sample.
Mutant_ArrowPoints(position, vector, lengthAdjustment, ofZero) ==
    LET stemEndpoint == VecAdd(position, VecScale(vector, lengthAdjustment))
        leftDir == normalise(vec2f(Negate(Dot(vector, XMatrixLeft)),
                                   Negate(Dot(vector, YMatrixLeft))), ofZero)
        rightDir == normalise(vec2f(Negate(Dot(vector, XMatrixRight)),
                                    Negate(Dot(vector, YMatrixRight))), ofZero)
    IN  <<position, stemEndpoint,
          position, VecAdd(position, VecScale(leftDir, ArrowHeadLength)),
          stemEndpoint, VecAdd(stemEndpoint, VecScale(rightDir, ArrowHeadLength))>>

\* The six points UploadVectors appends for one sample: stem, left stroke,
\* right stroke.
ArrowPoints(position, vector, lengthAdjustment, ofZero) ==
    LET stemEndpoint == VecAdd(position, VecScale(vector, lengthAdjustment))
        leftDir == normalise(vec2f(Negate(Dot(vector, XMatrixLeft)),
                                   Negate(Dot(vector, YMatrixLeft))), ofZero)
        rightDir == normalise(vec2f(Negate(Dot(vector, XMatrixRight)),
                                    Negate(Dot(vector, YMatrixRight))), ofZero)
    IN  <<position, stemEndpoint,
          stemEndpoint, VecAdd(stemEndpoint, VecScale(leftDir, ArrowHeadLength)),
          stemEndpoint, VecAdd(stemEndpoint, VecScale(rightDir, ArrowHeadLength))>>

RECURSIVE ArrowBuffer(_, _, _, _, _, _)
\* The buffer after the loop of UploadVectors ran over samples i..count.
ArrowBuffer(i, count, position, vector, lengthAdjustment, ofZero) ==
    IF i > count THEN <<>>
    ELSE ArrowPoints(position[i], vector[i], lengthAdjustment, ofZero)
         \o ArrowBuffer(i + 1, count, position, vector, lengthAdjustment, ofZero)

UploadVectors(count, position, vector, lengthAdjustment, color, ofZero) ==
    /\ ~aborted
    /\ mVectorArrowPointPositionBuffer' =
          ArrowBuffer(1, count, position, vector, lengthAdjustment, ofZero)
    /\ mVectorArrowColor' = color
    /\ lastOp' = [op |-> "UploadVectors", count |-> count,
                  position |-> position, vector |-> vector,
                  lengthAdjustment |-> lengthAdjustment]
    /\ draws' = <<>>
    /\ orthoUpdates' = 0
    /\ UNCHANGED <<modeVars, pointVars, streamVars, vboVars, gtVars, buildVars,
                   mMaxMaxPlaneId, bindingVars, mRenderStatistics>>

\* The sample positions, vectors and length adjustments uploaded, and what
\* normalise returns for the zero vector.
SamplePositions == {vec2f(Whole(0), Whole(0)), vec2f(Whole(1), Whole(-2))}
SampleVectors ==
    {vec2f(Whole(1), Whole(0)), vec2f(Whole(0), Whole(0)),
     vec2f(Whole(-3), Whole(3))}
LengthAdjustments == {Whole(1), Whole(2)}
ArrowColors == {"vec4f(1, 0, 0, 1)"}
OfZeroOutcomes == {vec2f(Whole(0), Whole(0)), vec2f(NaN, NaN)}
\* normalise is given a zero vector only for a zero sample.
OfZeroOutcomesFor(count, vector) ==
    IF \E i \in 1..count : vector[i] = vec2f(Whole(0), Whole(0))
    THEN OfZeroOutcomes
    ELSE {vec2f(Whole(0), Whole(0))}

\* SpecVectors: one context showing a vector field, which receives the
\* samples of the field between frames.
InitVectors ==
    \E vectorField \in {"PointVelocity", "PointWaterVelocity"} :
        Constructed("Texture", "None", vectorField, FALSE, MaxPointCount, TRUE)

NextVectors ==
    \/ lastOp.op = "RenderEnd" /\ ResetStatistics
    \/ UploadPhase /\ \E count \in 0..MaxVectors :
          \E position \in [1..count -> SamplePositions],
             vector \in [1..count -> SampleVectors],
             lengthAdjustment \in LengthAdjustments,
             color \in ArrowColors :
                \E ofZero \in OfZeroOutcomesFor(count, vector) :
                   UploadVectors(count, position, vector, lengthAdjustment,
                                 color, ofZero)
    \/ UploadPhase /\ RenderEnd

SpecVectors == InitVectors /\ [][NextVectors]_vars

\* SpecSharedState: the first of two ships, whose context shares the shader
\* manager and the OpenGL state with the context of the other ship; the
\* other context's operations run between the operations of this one.
InitSharedState ==
    \E ship \in {"Structure", "Texture"}, debug \in DebugShipRenderModes,
       vectorField \in {"None", "PointVelocity"} :
        ConstructedShip(0, 2, ship, debug, vectorField, TRUE, MaxPointCount,
                        TRUE)

NextSharedState ==
    \/ lastOp.op = "RenderEnd" /\ ResetStatistics
    \/ UploadPhase /\ \E program \in Programs, attribute0 \in BOOLEAN :
                         OtherShipOperation(program, attribute0)
    \/ UploadPhase /\ \E maxMaxPlaneId \in 0..MaxPlaneId :
                         OtherShipUpdateOrthoMatrices(1, maxMaxPlaneId)
    \/ UploadPhase /\ UploadElementStressedSpring
    \/ UploadPhase /\ UploadEphemeralPoint
    \/ UploadPhase /\ RenderEnd

SpecSharedState == InitSharedState /\ [][NextSharedState]_vars

\* SpecConsecutive: one context, with or without the overlays, whose
\* RenderEnd may be called a second time in a frame with no upload in
\* between.
InitConsecutive ==
    \E ship \in ShipRenderModes, debug \in {"None", "Points"},
       vectorField \in {"None", "PointVelocity"} :
        Constructed(ship, debug, vectorField, TRUE, MaxPointCount, TRUE)

NextConsecutive ==
    \/ lastOp.op = "RenderEnd" /\ ResetStatistics
    \/ UploadPhase /\ UploadElementRope
    \/ UploadPhase /\ UploadElementStressedSpring
    \/ UploadPhase /\ UploadEphemeralPoint
    \/ UploadPhase /\ RenderStart
    \/ UploadPhase /\ \E c \in {1} :
                         UploadGenericTextureRenderSpecification(c)
    \/ UploadPhase /\ \E color \in ArrowColors :
          UploadVectors(1, <<vec2f(Whole(0), Whole(0))>>,
                        <<vec2f(Whole(1), Whole(0))>>, Whole(1), color,
                        vec2f(Whole(0), Whole(0)))
    \/ UploadPhase /\ RenderEnd
    \/ /\ lastOp.op = "RenderEnd"
       /\ mRenderStatistics.LastRenderedShipPlanes = mMaxMaxPlaneId + 1
       /\ RenderEnd

SpecConsecutive == InitConsecutive /\ [][NextConsecutive]_vars

\* The bracket the last operation has left open, if any: a Start or an
\* upload of one element opens or continues the bracket of its stream.
InElementsBracket ==
    lastOp.op \in {"UploadElementsStart", "UploadElementPoint",
                   "UploadElementSpring", "UploadElementRope",
                   "UploadElementTriangle"}
InStressedSpringsBracket ==
    lastOp.op \in {"UploadElementStressedSpringsStart",
                   "UploadElementStressedSpring"}
InEphemeralPointsBracket ==
    lastOp.op \in {"UploadEphemeralPointsStart", "UploadEphemeralPoint"}
OutsideBrackets ==
    /\ UploadPhase
    /\ ~InElementsBracket
    /\ ~InStressedSpringsBracket
    /\ ~InEphemeralPointsBracket

\* SpecBrackets: one context whose element uploads come in brackets, each
\* Start followed by the uploads of its streams and its End, one bracket
\* after the other in any order, all closed before RenderEnd.
InitBrackets ==
    \E debug \in {"None", "Points"} :
        Constructed("Structure", debug, "None", TRUE, MaxPointCount, TRUE)

NextBrackets ==
    \/ lastOp.op = "RenderEnd" /\ ResetStatistics
    \/ OutsideBrackets /\ UploadElementsStart
    \/ InElementsBracket /\ UploadElementPoint
    \/ InElementsBracket /\ UploadElementSpring
    \/ InElementsBracket /\ UploadElementRope
    \/ InElementsBracket /\ UploadElementTriangle
    \/ InElementsBracket /\ UploadElementsEnd
    \/ OutsideBrackets /\ UploadElementStressedSpringsStart
    \/ InStressedSpringsBracket /\ UploadElementStressedSpring
    \/ InStressedSpringsBracket /\ UploadElementStressedSpringsEnd
    \/ OutsideBrackets /\ UploadEphemeralPointsStart
    \/ InEphemeralPointsBracket /\ UploadEphemeralPoint
    \/ InEphemeralPointsBracket /\ UploadEphemeralPointsEnd
    \/ OutsideBrackets /\ RenderEnd

SpecBrackets == InitBrackets /\ [][NextBrackets]_vars

\* SpecMatrices: one context with every overlay on, whose ship changes its
\* number of planes between frames.
InitMatrices ==
    \E ship \in ShipRenderModes, debug \in DebugShipRenderModes :
        Constructed(ship, debug, "PointVelocity", TRUE, MaxPointCount, TRUE)

NextMatrices ==
    \/ lastOp.op = "RenderEnd" /\ ResetStatistics
    \/ UploadPhase /\ \E maxMaxPlaneId \in 0..MaxPlaneId :
                         UploadPointPlaneIds(
                            [i \in 1..mPointCount |-> maxMaxPlaneId],
                            maxMaxPlaneId)
    \/ UploadPhase /\ RenderStart
    \/ UploadPhase /\ \E c \in {1} :
                         UploadGenericTextureRenderSpecification(c)
    \/ UploadPhase /\ UploadElementStressedSpring
    \/ UploadPhase /\ UploadEphemeralPoint
    \/ UploadPhase /\ RenderEnd

SpecMatrices == InitMatrices /\ [][NextMatrices]_vars

\* SpecDepth: any ship of a scene of up to MaxShipCount ships, receiving
\* plane ids with any maxMaxPlaneId between frames.
InitDepth ==
    \E shipCount \in 1..MaxShipCount :
       \E shipId \in 0..(shipCount - 1) :
          ConstructedShip(shipId, shipCount, "Structure", "None", "None",
                          FALSE, MaxPointCount, TRUE)

NextDepth ==
    \/ lastOp.op = "RenderEnd" /\ ResetStatistics
    \/ UploadPhase /\ \E maxMaxPlaneId \in 0..MaxPlaneId :
                         UploadPointPlaneIds(
                            [i \in 1..mPointCount |-> maxMaxPlaneId],
                            maxMaxPlaneId)
    \/ UploadPhase /\ UploadElementRope
    \/ UploadPhase /\ RenderEnd

SpecDepth == InitDepth /\ [][NextDepth]_vars

\* SpecPoints: one context of any point count, in a build with or without
\* assertions, receiving point attribute uploads in any order.
\* The caller's colour array of a range upload: any array of count colours
\* that fits the context, and one-colour arrays for longer counts.
ColorRangeInputs(count) ==
    IF count <= mPointCount THEN [1..count -> Colors]
    ELSE {[i \in 1..count |-> c] : c \in Colors}

InitPoints ==
    \E pointCount \in 0..MaxPointCount, asserts \in BOOLEAN :
        Constructed("Structure", "None", "None", FALSE, pointCount, asserts)

NextPoints ==
    \/ \E color \in ColorArrays, textureCoordinates \in AttrArrays :
          UploadPointImmutableGraphicalAttributes(color, textureCoordinates)
    \/ \E startIndex \in 0..(MaxPointCount + 1), count \in 0..(MaxPointCount + 1) :
          \E color \in ColorRangeInputs(count) :
             UploadShipPointColorRange(color, startIndex, count)
    \/ \E position \in AttrArrays, light \in AttrArrays, water \in AttrArrays :
          UploadPoints(position, light, water)

SpecPoints == InitPoints /\ [][NextPoints]_vars

\* ------------------------------------------------------------------ claims

\* The last operation was a RenderEnd: draws holds what it issued.
Rendered == lastOp.op = "RenderEnd"

\* The positions of the draws of one kind.
DrawsOfKind(kind) == {i \in 1..Len(draws) : draws[i].kind = kind}

\* Every draw of kind k1 comes before every draw of kind k2.
AllBefore(k1, k2) ==
    \A i \in DrawsOfKind(k1), j \in DrawsOfKind(k2) : i < j

\* The kinds of the draws other than the vector overlay, in order.
KindsWithoutVectors ==
    LET body == SelectSeq(draws, LAMBDA d : d.kind # "Vectors")
    IN  [i \in 1..Len(body) |-> body[i].kind]

\* The kinds that close every RenderEnd: the ephemeral points if any exist,
\* then one generic-texture draw per non-empty component.
ClosingKinds ==
    (IF mEphemeralPoints # 0 THEN <<"EphemeralPoints">> ELSE <<>>)
    \o [i \in 1..Cardinality({c \in 1..Len(mGenericTextureConnectedComponents) :
                                 mGenericTextureConnectedComponents[c] # 0})
          |-> "GenericTextures"]

StructureAndNone ==
    mShipRenderMode = "Structure" /\ mDebugShipRenderMode = "None"

PrecedenceWithoutRopes ==
    LET order == <<"Points", "Triangles", "Springs", "StressedSprings",
                   "EphemeralPoints", "GenericTextures", "Vectors">>
    IN  \A a, b \in 1..Len(order) : a < b => AllBefore(order[a], order[b])

C9_TrianglesDraw ==
    Rendered =>
        /\ Cardinality(DrawsOfKind("Triangles")) =
              IF mDebugShipRenderMode \in {"Wireframe", "None"} THEN 1 ELSE 0
        /\ \A i \in DrawsOfKind("Triangles") :
              /\ draws[i].program \in {"ShipTrianglesTexture", "ShipTrianglesColor"}
              /\ draws[i].program = "ShipTrianglesTexture"
                    <=> mShipRenderMode = "Texture"

C9_Witness ==
    /\ Rendered
    /\ mDebugShipRenderMode = "Wireframe" /\ mShipRenderMode = "Texture"
    /\ DrawsOfKind("Triangles") # {}

\* C10: RenderEnd issues the springs draw iff the debug mode is Springs,
\* EdgeSprings or None, and that draw uses the textured program iff the ship
\* mode is Texture and the debug mode is None.
C10_SpringsDraw ==
    Rendered =>
        /\ Cardinality(DrawsOfKind("Springs")) =
              IF mDebugShipRenderMode \in {"Springs", "EdgeSprings", "None"}
              THEN 1 ELSE 0
        /\ \A i \in DrawsOfKind("Springs") :
              /\ draws[i].program \in {"ShipTrianglesTexture", "ShipTrianglesColor"}
              /\ draws[i].program = "ShipTrianglesTexture"
                    <=> (mShipRenderMode = "Texture"
                         /\ mDebugShipRenderMode = "None")

C10_Witness ==
    /\ Rendered
    /\ mDebugShipRenderMode = "EdgeSprings" /\ mShipRenderMode = "Texture"
    /\ DrawsOfKind("Springs") # {}


\* C4 (as stated): after every UploadPointPlaneIds the stored max-max plane
\* id is the maximum of its previous value and the supplied one, so it never
\* decreases.
C4_MaxMaxPlaneIdNeverDecreases ==
    [][lastOp'.op = "UploadPointPlaneIds" =>
          mMaxMaxPlaneId' = Max(mMaxMaxPlaneId, lastOp'.maxMaxPlaneId)]_vars

\* C5 (as stated): an UploadPointPlaneIds with a maxMaxPlaneId greater than
\* the stored one recomputes the depth-layer matrices exactly once; one with
\* an equal or smaller maxMaxPlaneId recomputes nothing.
C5_RecomputeOnlyOnGrowth ==
    [][lastOp'.op = "UploadPointPlaneIds" =>
          orthoUpdates' = IF lastOp'.maxMaxPlaneId > mMaxMaxPlaneId THEN 1 ELSE 0]_vars

\* C6 (as stated): the allocated generic-texture vertex buffer capacity
\* never decreases.
C6_CapacityNeverDecreases ==
    [][mGenericTextureAllocatedVertexBufferSize'
          >= mGenericTextureAllocatedVertexBufferSize]_vars

\* The last operation was an UploadShipPointColorRange.
ColorRangeUploaded == lastOp.op = "UploadShipPointColorRange"

\* C7: an UploadShipPointColorRange with startIndex + count <= mPointCount
\* succeeds, sets the colour at index startIndex + i to color[i] for every
\* i < count, leaves every other colour as it was, and leaves the other five
\* point attribute buffers as they were.
C7_ColorRangeWritten ==
    [][(ColorRangeUploaded' /\ lastOp'.startIndex + lastOp'.count <= mPointCount) =>
          /\ lastOp'.outcome = "Ok"
          /\ \A i \in 1..mPointCount :
                mPointColorVBO'[i] =
                   IF lastOp'.startIndex < i /\ i <= lastOp'.startIndex + lastOp'.count
                   THEN lastOp'.color[i - lastOp'.startIndex]
                   ELSE mPointColorVBO[i]
          /\ UNCHANGED <<mPointPositionVBO, mPointLightVBO, mPointWaterVBO,
                         mPointPlaneIdVBO, mPointElementTextureCoordinatesVBO>>]_vars

C7_Witness ==
    /\ ColorRangeUploaded /\ lastOp.outcome = "Ok"
    /\ lastOp.startIndex >= 1 /\ lastOp.count >= 1
    /\ mPointColorVBO[1] # mPointColorVBO[lastOp.startIndex + 1]
    /\ mPointColorVBO[1] \in Colors
    /\ mPointPositionVBO # mPointElementTextureCoordinatesVBO
    /\ mPointPositionVBO[1] \in AttrValues

\* C8: an UploadShipPointColorRange with startIndex + count > mPointCount is
\* rejected (by the assertion, or by the OpenGL error check where assertions
\* are compiled out) and the colour buffer is not written.
C8_ColorRangeRejected ==
    [][(ColorRangeUploaded' /\ lastOp'.startIndex + lastOp'.count > mPointCount) =>
          /\ lastOp'.outcome \in {"AssertionFailed", "OpenGLError"}
          /\ assertsEnabled => (lastOp'.outcome = "AssertionFailed" /\ aborted')
          /\ UNCHANGED mPointColorVBO]_vars

C8_Witness ==
    /\ ColorRangeUploaded
    /\ lastOp.startIndex < mPointCount
    /\ lastOp.startIndex + lastOp.count > mPointCount
    /\ lastOp.outcome = "AssertionFailed" /\ aborted
    /\ \E i \in 1..mPointCount : mPointColorVBO[i] \in Colors

\* C11 (as stated): RenderEnd issues a stressed-spring draw whenever the
\* debug mode is None and the stressed-springs toggle is on, and never issues
\* one otherwise.
C11_StressedSpringsDrawnWheneverEnabled ==
    Rendered =>
        (DrawsOfKind("StressedSprings") # {}
            <=> (mDebugShipRenderMode = "None" /\ mShowStressedSprings))

\* C11 (amended): RenderEnd issues exactly one stressed-spring draw when the
\* debug mode is None, the stressed-springs toggle is on and the
\* stressed-spring stream is non-empty, and none otherwise.
C11_StressedSpringsDrawnWhenEnabledAndNonEmpty ==
    Rendered =>
        Cardinality(DrawsOfKind("StressedSprings")) =
            IF /\ mDebugShipRenderMode = "None"
               /\ mShowStressedSprings
               /\ mStressedSpringElementBuffer # 0
            THEN 1 ELSE 0

C11_Witness ==
    /\ Rendered
    /\ mDebugShipRenderMode = "None" /\ mShowStressedSprings
    /\ mStressedSpringElementBuffer # 0
    /\ Cardinality(DrawsOfKind("StressedSprings")) = 1

\* C12: RenderEnd issues the points draw iff the debug mode is Points,
\* whatever the ship mode, the vector-field mode and the stressed-springs
\* toggle are.
C12_PointsDraw ==
    Rendered =>
        Cardinality(DrawsOfKind("Points")) =
            IF mDebugShipRenderMode = "Points" THEN 1 ELSE 0

C12_Witness ==
    /\ Rendered
    /\ mDebugShipRenderMode = "Points"
    /\ mShipRenderMode = "Texture"
    /\ mVectorFieldRenderMode # "None"
    /\ mShowStressedSprings
    /\ Cardinality(DrawsOfKind("Points")) = 1

\* C13: in every mode combination RenderEnd issues an ephemeral-points draw
\* iff the ephemeral-point stream is non-empty.
C13_EphemeralPointsDraw ==
    Rendered =>
        Cardinality(DrawsOfKind("EphemeralPoints")) =
            IF mEphemeralPoints # 0 THEN 1 ELSE 0

C13_Witness ==
    /\ Rendered
    /\ mDebugShipRenderMode = "Points"
    /\ mEphemeralPoints # 0
    /\ Cardinality(DrawsOfKind("EphemeralPoints")) = 1

\* C15: RenderEnd issues the vector-overlay draw iff the vector-field mode is
\* not None, and when issued it is the last draw of that RenderEnd.
C15_VectorsDrawnLast ==
    Rendered =>
        /\ Cardinality(DrawsOfKind("Vectors")) =
              IF mVectorFieldRenderMode # "None" THEN 1 ELSE 0
        /\ \A i \in DrawsOfKind("Vectors") : i = Len(draws)

C15_Witness ==
    /\ Rendered
    /\ mVectorFieldRenderMode # "None"
    /\ mDebugShipRenderMode = "Wireframe"
    /\ Len(draws) >= 4
    /\ draws[Len(draws)].kind = "Vectors"

\* C20: under debug mode Wireframe, for either ship mode, the triangles draw
\* is issued and the line width was set to the thin wireframe value right
\* before it.
C20_WireframeLineWidth ==
    (Rendered /\ mDebugShipRenderMode = "Wireframe") =>
        /\ Cardinality(DrawsOfKind("Triangles")) = 1
        /\ \A i \in DrawsOfKind("Triangles") :
              draws[i].lineWidth = WireframeLineWidth

C20_Witness ==
    /\ Rendered
    /\ mDebugShipRenderMode = "Wireframe" /\ mShipRenderMode = "Texture"
    /\ \E i \in DrawsOfKind("Triangles") :
          /\ draws[i].program = "ShipTrianglesTexture"
          /\ draws[i].lineWidth = WireframeLineWidth

\* The vertex counts of the generic-texture draws, in the order issued.
GenericTextureDrawCounts ==
    LET gt == SelectSeq(draws, LAMBDA d : d.kind = "GenericTextures")
    IN  [i \in 1..Len(gt) |-> gt[i].count]

\* C14: in every mode combination RenderEnd issues exactly one
\* generic-texture draw for each connected component with a non-empty vertex
\* sequence and none for the empty ones, in the order of the component list.
C14_OneDrawPerNonEmptyComponent ==
    Rendered =>
        GenericTextureDrawCounts =
            SelectSeq(mGenericTextureConnectedComponents, LAMBDA n : n # 0)

C14_Witness ==
    /\ Rendered
    /\ mDebugShipRenderMode = "Springs"
    /\ Len(mGenericTextureConnectedComponents) >= 2
    /\ mGenericTextureConnectedComponents[1] = 2 * VerticesPerQuad
    /\ mGenericTextureConnectedComponents[2] = VerticesPerQuad
    /\ GenericTextureDrawCounts = <<2 * VerticesPerQuad, VerticesPerQuad>>

\* C16: every RenderEnd, in every mode combination, adds exactly the stored
\* mMaxMaxPlaneId + 1 to the rendered-planes counter, after all the draws of
\* that RenderEnd have been issued.
C16_PlanesCounted ==
    [][lastOp'.op = "RenderEnd" =>
          /\ mRenderStatistics'.LastRenderedShipPlanes =
                mRenderStatistics.LastRenderedShipPlanes + mMaxMaxPlaneId + 1
          /\ lastOp'.planesUpdatedAfter = Len(draws')]_vars

C16_Witness ==
    /\ Rendered
    /\ mDebugShipRenderMode = "Points"
    /\ mMaxMaxPlaneId = 2
    /\ mRenderStatistics.LastRenderedShipPlanes = 3
    /\ Len(draws) >= 3
    /\ lastOp.planesUpdatedAfter = Len(draws)

\* The counters of the statistics sink.
StatisticsCounters == DOMAIN ZeroStatistics

\* C17: no operation of a render context (upload, RenderStart, RenderEnd, of
\* this context or of another one sharing the sink) resets or decreases a
\* statistics counter; only the sink's owner resets it.
C17_CountersNeverDecrease ==
    [][lastOp'.op # "ResetStatistics" =>
          \A counter \in StatisticsCounters :
             mRenderStatistics'[counter] >= mRenderStatistics[counter]]_vars

C17_Witness ==
    /\ Rendered
    /\ mSpringElementBuffer > 0
    /\ \A counter \in StatisticsCounters \ {"LastRenderedShipPlanes"} :
          mRenderStatistics[counter] >= 2
    /\ mRenderStatistics.LastRenderedShipSprings > mSpringElementBuffer
    /\ mRenderStatistics.LastRenderedShipPlanes = 2 * (mMaxMaxPlaneId + 1)

\* C18: UploadElementsStart empties the point, spring, rope, triangle and
\* stressed-spring streams and leaves the ephemeral-point stream, the point
\* attribute buffers, the mode flags and mMaxMaxPlaneId as they were.
C18_ElementsStartEmptiesFiveStreams ==
    [][lastOp'.op = "UploadElementsStart" =>
          /\ mPointElementBuffer' = 0
          /\ mSpringElementBuffer' = 0
          /\ mRopeElementBuffer' = 0
          /\ mTriangleElementBuffer' = 0
          /\ mStressedSpringElementBuffer' = 0
          /\ UNCHANGED <<mEphemeralPoints, pointVars, modeVars,
                         mMaxMaxPlaneId>>]_vars

C18_Witness ==
    /\ lastOp.op = "UploadElementsStart"
    /\ mStressedSpringElementVBO > 0
    /\ mEphemeralPoints > 0
    /\ mMaxMaxPlaneId > 0
    /\ \A i \in 1..mPointCount : mPointPlaneIdVBO[i] = mMaxMaxPlaneId
    /\ mPointCount > 0
    /\ mPointElementBuffer + mSpringElementBuffer + mRopeElementBuffer
          + mTriangleElementBuffer + mStressedSpringElementBuffer = 0

\* C19: RenderStart leaves every connected component with an empty vertex
\* sequence and the peak-size tracker at zero, whatever the batch held
\* before.
C19_RenderStartEmptiesBatch ==
    lastOp.op = "RenderStart" =>
        /\ \A c \in 1..Len(mGenericTextureConnectedComponents) :
              mGenericTextureConnectedComponents[c] = 0
        /\ mGenericTextureMaxVertexBufferSize = 0

C19_Witness ==
    /\ lastOp.op = "RenderStart"
    /\ Len(mGenericTextureConnectedComponents) >= 2
    /\ mGenericTextureAllocatedVertexBufferSize = MaxQuads * VerticesPerQuad
    /\ mRenderStatistics = ZeroStatistics
    /\ mGenericTextureMaxVertexBufferSize = 0

\* The layer the claims give to each draw kind.
ClaimedLayerOfKind(kind) ==
    CASE kind = "Ropes" -> 0
      [] kind = "Springs" -> 1
      [] kind = "Triangles" -> 1
      [] kind = "StressedSprings" -> 2
      [] kind = "Points" -> 3
      [] kind = "EphemeralPoints" -> 3
      [] kind = "GenericTextures" -> 4
      [] kind = "Vectors" -> 5

\* The kinds whose draws can run with a program.
KindsOfProgram(p) ==
    CASE p = "ShipRopes" -> {"Ropes"}
      [] p = "ShipTrianglesColor" -> {"Springs", "Triangles"}
      [] p = "ShipTrianglesTexture" -> {"Springs", "Triangles"}
      [] p = "ShipStressedSprings" -> {"StressedSprings"}
      [] p = "ShipPointsColor" -> {"Points", "EphemeralPoints"}
      [] p = "ShipGenericTextures" -> {"GenericTextures"}
      [] p = "ShipVectors" -> {"Vectors"}

\* C21: after every recomputation, every draw of a RenderEnd runs with a
\* program that holds the matrix of the layer of its draw kind, out of 6:
\* ropes 0, springs and triangles 1, stressed springs 2, points and
\* ephemeral points 3, generic textures 4, vectors 5.
C21_LayerOfEveryDraw ==
    Rendered =>
        \A i \in 1..Len(draws) :
           /\ draws[i].activeProgram \in DOMAIN orthoMatrix
           /\ orthoMatrix[draws[i].activeProgram].layer =
                 ClaimedLayerOfKind(draws[i].kind)
           /\ orthoMatrix[draws[i].activeProgram].nLayers = 6

C21_Witness ==
    /\ Rendered
    /\ mMaxMaxPlaneId = 2
    /\ mShipRenderMode = "Texture"
    /\ {draws[i].kind : i \in 1..Len(draws)} =
          {"Triangles", "Ropes", "Springs", "StressedSprings",
           "EphemeralPoints", "GenericTextures", "Vectors"}
    /\ \A p \in Programs : orthoMatrix[p].maxMaxPlaneId = 2

\* The depth slots a and b do not overlap.
DisjointSlots(a, b) ==
    a.hi * b.n <= b.lo * a.n \/ b.hi * a.n <= a.lo * b.n

\* The depth slot a lies wholly before b on the way from zStart to
\* zStart + zWidth.
SlotBefore(a, b) ==
    a.hi * b.n <= b.lo * a.n

\* The matrices of another ship of the same scene, holding any number of
\* planes.
OtherShipMatrices ==
    {CalculateShipOrthoMatrix(ShipRegionZStart, ShipRegionZWidth, iShip,
                              mShipCount, maxMaxPlaneId, iLayer, NLayers) :
        iShip \in (0..(mShipCount - 1)) \ {mShipId},
        maxMaxPlaneId \in 0..MaxPlaneId, iLayer \in 0..(NLayers - 1)}

C24_OneRopeDrawPerRenderEnd ==
    [][lastOp'.op = "RenderEnd" =>
          /\ Cardinality({i \in 1..Len(draws') : draws'[i].kind = "Ropes"}) = 1
          /\ mRenderStatistics'.LastRenderedShipRopes =
                mRenderStatistics.LastRenderedShipRopes + mRopeElementBuffer]_vars

C24_Witness ==
    /\ Rendered
    /\ mShipRenderMode = "Texture" /\ mDebugShipRenderMode = "None"
    /\ mRopeElementBuffer = MaxElements
    /\ mRenderStatistics.LastRenderedShipRopes = MaxElements
    /\ \E i \in 1..Len(draws) :
          draws[i].kind = "Ropes" /\ draws[i].count = 2 * MaxElements

\* The points of the arrow buffer at the offsets of sample i, counted from 0.
ArrowOffset(i, k) == mVectorArrowPointPositionBuffer[6 * i + k + 1]

\* The stroke from point a to point b has length 0.2: five times the stroke
\* has length one.
StrokeLength02(a, b) ==
    LET stroke == VecScale(VecAdd(b, vec2f(Negate(a.x), Negate(a.y))), Whole(5))
    IN  Dot(stroke, stroke) = Whole(1)

C26_OwnProgramActiveAtEveryDraw ==
    Rendered =>
        \A i \in 1..Len(draws) :
           /\ draws[i].activeProgram \in Programs
           /\ draws[i].kind \in KindsOfProgram(draws[i].activeProgram)

C26_Witness ==
    /\ Rendered
    /\ Len(draws) >= 6
    /\ orthoMatrix["ShipRopes"].iShip = 1
    /\ \E i \in 1..Len(draws) : draws[i].kind = "StressedSprings"
    /\ \E i \in 1..Len(draws) : draws[i].kind = "Vectors"

\* C27: in every RenderEnd, whatever state an earlier RenderEnd of this or
\* another context left, vertex attribute array 0 is disabled during the
\* points, triangles, ropes, springs, stressed-springs, ephemeral-points and
\* generic-texture draws and enabled during the vector draw only.
C27_Attribute0EnabledForVectorsOnly ==
    Rendered =>
        \A i \in 1..Len(draws) :
           draws[i].vertexAttribArray0 <=> draws[i].kind = "Vectors"

C27_Witness ==
    /\ Rendered
    /\ mVectorFieldRenderMode = "PointVelocity"
    /\ Len(draws) >= 6
    /\ draws[Len(draws)].kind = "Vectors"
    /\ draws[Len(draws)].vertexAttribArray0
    /\ ~draws[1].vertexAttribArray0
    /\ vertexAttribArray0Enabled
    /\ orthoMatrix["ShipVectors"].iShip = 1

\* C28: RenderEnd leaves the element streams, the ephemeral points, the
\* generic-texture components, the vector-arrow buffer, the mode flags and
\* maxMaxPlaneId unchanged, and a RenderEnd that directly follows a
\* RenderEnd issues the same draws with the same counts.
C28_RenderEndRepeatable ==
    [][lastOp'.op = "RenderEnd" =>
          /\ UNCHANGED <<streamVars, mGenericTextureConnectedComponents,
                         mVectorArrowPointPositionBuffer, modeVars,
                         mMaxMaxPlaneId>>
          /\ lastOp.op = "RenderEnd" => draws' = draws]_vars

C28_Witness ==
    /\ Rendered
    /\ mRenderStatistics.LastRenderedShipPlanes = 2 * (mMaxMaxPlaneId + 1)
    /\ mRenderStatistics.LastRenderedShipEphemeralPoints = 2 * MaxElements
    /\ mEphemeralPoints = MaxElements
    /\ Len(mVectorArrowPointPositionBuffer) = 6
    /\ Len(draws) >= 6

\* The number of elements last transferred to the GPU buffer of the stream
\* a draw kind reads, and the indices each element submits.
TransferredElements(kind) ==
    CASE kind = "Points" -> mPointElementVBO
      [] kind = "Springs" -> mSpringElementVBO
      [] kind = "Ropes" -> mRopeElementVBO
      [] kind = "Triangles" -> mTriangleElementVBO
      [] kind = "StressedSprings" -> mStressedSpringElementVBO
      [] kind = "EphemeralPoints" -> mEphemeralPointVBO
IndicesPerElement(kind) ==
    CASE kind \in {"Points", "EphemeralPoints"} -> 1
      [] kind \in {"Springs", "Ropes", "StressedSprings"} -> 2
      [] kind = "Triangles" -> 3

\* C29: when every Start is followed by its End before RenderEnd, every
\* element draw of RenderEnd submits exactly the elements its stream's last
\* End transferred to the GPU buffer, the stressed-spring draw included.
C29_DrawsSubmitTransferredElements ==
    Rendered =>
        \A i \in 1..Len(draws) :
           draws[i].kind \in {"Points", "Springs", "Ropes", "Triangles",
                              "StressedSprings", "EphemeralPoints"} =>
              draws[i].count = IndicesPerElement(draws[i].kind)
                                  * TransferredElements(draws[i].kind)

C29_Witness ==
    /\ Rendered
    /\ mRopeElementVBO = MaxElements
    /\ mStressedSpringElementVBO = MaxElements
    /\ mEphemeralPointVBO = MaxElements
    /\ \E i \in 1..Len(draws) :
          draws[i].kind = "StressedSprings"
             /\ draws[i].count = 2 * MaxElements
    /\ \E i \in 1..Len(draws) :
          draws[i].kind = "Ropes" /\ draws[i].count = 2 * MaxElements

====
